---------------------------- MODULE Spec2Model ----------------------------
(***************************************************************************)
(* Da Vinci Canvas (src/App.tsx, src/styles.ts, src/unnamed/part_000):     *)
(* the App component's state, its event handlers and the continuations of  *)
(* its asynchronous calls, and the data-URL utilities.                     *)
(*                                                                         *)
(* Strings are sequences of symbols.  A symbol is one character, or a      *)
(* chunk of characters that holds none of the separators "," ":" ";".      *)
(* The empty string is <<>>.  A nullable value is None or Some(v).         *)
(*                                                                         *)
(* Each action is one handler up to its await, or the continuation that    *)
(* runs when the awaited promise settles.  A handler is enabled when the   *)
(* render shows its control enabled.  The two panel flags                  *)
(* (isStylePanelOpen, isPromptEditorOpen) and handleDownload are left out: *)
(* no handler reads the flags and handleDownload writes no state.          *)
(***************************************************************************)
EXTENDS Integers, Sequences, FiniteSets, TLC

VARIABLES
    aistudio,        \* window.aistudio is defined (App.tsx:19)
    image,           \* useState<string | null>            (App.tsx:24)
    generatedImage,  \* useState<string | null>            (App.tsx:25)
    generatedFrom,   \* the fileInfo that was sent for generatedImage (history)
    activeStyle,     \* useState<PhotoStyle>, by its id    (App.tsx:26)
    prompt,          \* useState<string>                   (App.tsx:27)
    isLoading,       \* useState<boolean>                  (App.tsx:28)
    error,           \* useState<string | null>            (App.tsx:29)
    fileInfo,        \* useState<{mimeType, base64Data} | null> (App.tsx:30)
    isCheckingKey,   \* useState<boolean>(true)            (App.tsx:35)
    isKeyReady,      \* useState<boolean>(false)           (App.tsx:36)
    checkPc,         \* position of checkApiKey: "mounted", "awaiting", "done"
    checkRuns,       \* how many times the mount effect has run checkApiKey
    signIns,         \* openSelectKey() promises not yet settled
    reads,           \* files whose fileToDataUrl promise is not yet settled
    requests,        \* generateProfessionalHeadshot calls not yet settled
    lastOp,          \* the handler or continuation that ran last, and its input
    parseInput,      \* argument of parseDataUrl (SpecParse)
    parseOutput      \* what parseDataUrl did with parseInput (SpecParse)

appVars == <<aistudio, image, generatedImage, generatedFrom, activeStyle, prompt, isLoading,
             error, fileInfo, isCheckingKey, isKeyReady, checkPc, checkRuns,
             signIns, reads, requests, lastOp>>

parseVars == <<parseInput, parseOutput>>

vars == <<appVars, parseVars>>

-----------------------------------------------------------------------------
(* Bounds of the model *)

\* pending file reads at one time
MaxReads == 2

\* pending sign-in dialogs at one time
MaxSignIns == 1

\* pending generation calls the model allows (the code sets no limit itself)
MaxRequests == 2

\* entries of the style catalog the user picks among
MaxStyles == 2

\* length of the arbitrary strings given to parseDataUrl
MaxLen == 5

\* length of the <mime> and <payload> parts of the well-formed data URLs
MaxPart == 2

-----------------------------------------------------------------------------
(* Values *)

None == <<>>

Some(v) == <<v>>

\* JavaScript truthiness of a string | null: neither null nor ""
Truthy(opt) == opt # None /\ opt[1] # <<>>

\* String.prototype.includes, on symbol sequences
Includes(s, sub) ==
    \E i \in 1..(Len(s) + 1) :
        /\ i + Len(sub) - 1 <= Len(s)
        /\ SubSeq(s, i, i + Len(sub) - 1) = sub

\* String.prototype.split(sep) for a one-character separator:
\* "a,b" -> ["a","b"], "" -> [""], "," -> ["",""]
RECURSIVE Split(_, _)
Split(s, sep) ==
    IF \A i \in 1..Len(s) : s[i] # sep
    THEN <<s>>
    ELSE LET i == CHOOSE k \in 1..Len(s) :
                      s[k] = sep /\ \A j \in 1..(k - 1) : s[j] # sep
         IN  <<SubSeq(s, 1, i - 1)>> \o Split(SubSeq(s, i + 1, Len(s)), sep)

\* the sequences over S of length at most n
RECURSIVE SeqUpTo(_, _)
SeqUpTo(S, n) ==
    IF n = 0 THEN {<<>>}
    ELSE LET shorter == SeqUpTo(S, n - 1)
         IN  shorter \cup {Append(s, c) : s \in shorter, c \in S}

\* the result of a call: a returned value or a thrown Error
Return(v) == [threw |-> FALSE, value |-> Some(v), message |-> <<>>]

Throw(m) == [threw |-> TRUE, value |-> None, message |-> m]

-----------------------------------------------------------------------------
(* src/unnamed/part_000 (utils/fileUtils) *)

parseDataUrl_keepsParameters(dataUrl) ==
    LET parts == Split(dataUrl, ",")
    IN  IF Len(parts) # 2
        THEN Throw(<<"Invalid Data URL format.">>)
        ELSE LET metaParts == Split(parts[1], ":")
             IN  IF Len(metaParts) < 2 \/ metaParts[2] = <<>>
                 THEN Throw(<<"Invalid Data URL: Missing metadata.">>)
                 ELSE Return([mimeType   |-> metaParts[2],
                              base64Data |-> parts[2]])

parseDataUrl_atLeastTwoParts(dataUrl) ==
    LET parts == Split(dataUrl, ",")
    IN  IF Len(parts) < 2
        THEN Throw(<<"Invalid Data URL format.">>)
        ELSE LET metaParts == Split(parts[1], ":")
             IN  IF Len(metaParts) < 2 \/ metaParts[2] = <<>>
                 THEN Throw(<<"Invalid Data URL: Missing metadata.">>)
                 ELSE Return([mimeType   |-> Split(metaParts[2], ";")[1],
                              base64Data |-> parts[2]])

parseDataUrl_noMetadataCheck(dataUrl) ==
    LET parts == Split(dataUrl, ",")
    IN  IF Len(parts) # 2
        THEN Throw(<<"Invalid Data URL format.">>)
        ELSE LET metaParts == Split(parts[1], ":")
                 metaPart  == IF Len(metaParts) < 2 THEN <<>> ELSE metaParts[2]
             IN  Return([mimeType   |-> Split(metaPart, ";")[1],
                         base64Data |-> parts[2]])

\* parts[0].split(':')[1] is undefined when parts[0] holds no colon and ""
\* when nothing stands between its first colon and the next: both are falsy.
parseDataUrl(dataUrl) ==
    LET parts == Split(dataUrl, ",")
    IN  IF Len(parts) # 2
        THEN Throw(<<"Invalid Data URL format.">>)
        ELSE LET metaParts == Split(parts[1], ":")
             IN  IF Len(metaParts) < 2 \/ metaParts[2] = <<>>
                 THEN Throw(<<"Invalid Data URL: Missing metadata.">>)
                 ELSE Return([mimeType   |-> Split(metaParts[2], ";")[1],
                              base64Data |-> parts[2]])

\* The files the picker hands over: a MIME type and a base64 body.
FileTypes == {<<"image/png">>, <<"image/gif">>, <<>>}

FileBodies == {<<>>, <<"AAAA">>}

Files == [type : FileTypes, body : FileBodies]

\* FileReader.readAsDataURL: data:<type>;base64,<body>
DataUrlOf(file) ==
    <<"data", ":">> \o file.type \o <<";", "base64", ",">> \o file.body

\* What the promise of fileToDataUrl(file) can settle with.  reader.onload
\* resolves with reader.result, reader.onerror rejects.  For an empty file
\* some engines give the bare "data:" instead of a full data URL.
fileToDataUrl(file) ==
    {Return(DataUrlOf(file)), Throw(<<"ProgressEvent">>)}
        \cup (IF file.body = <<>> THEN {Return(<<"data", ":">>)} ELSE {})


-----------------------------------------------------------------------------
(* src/styles.ts: the catalog.  A prompt is kept as one symbol. *)

styles ==
    << [id |-> "professional", name |-> "Professional Headshot",
        prompt |-> <<"A professional studio headshot. ...">>],
       [id |-> "casual", name |-> "Casual Portrait",
        prompt |-> <<"A relaxed, casual outdoor portrait. ...">>],
       [id |-> "artistic", name |-> "Artistic Black & White",
        prompt |-> <<"A powerful, artistic black and white portrait. ...">>],
       [id |-> "social-media", name |-> "Social Media Profile",
        prompt |-> <<"A vibrant and modern profile picture ...">>],
       [id |-> "futuristic", name |-> "Futuristic / Sci-Fi",
        prompt |-> <<"A futuristic, sci-fi themed portrait. ...">>],
       [id |-> "vintage", name |-> "Vintage / Retro",
        prompt |-> <<"A vintage-style portrait ...">>] >>

\* the entries the user picks among
PickableStyles ==
    {styles[i] : i \in {k \in 1..Len(styles) : k <= MaxStyles}}

\* what the user types into the prompt editor
TypedPrompts == {<<>>, <<"my own prompt">>}

-----------------------------------------------------------------------------
(* src/App.tsx: messages and inputs *)

UnsupportedTypeMsg ==
    <<"Unsupported file type. Please upload a PNG, JPEG, WEBP, HEIC, or HEIF file.">>

ReadFailedMsg == <<"Failed to read the image file. Please try another one.">>

ValidationMsg == <<"Please upload an image and select a style.">>

SessionExpiredMsg ==
    <<"Your session has expired or the API key is invalid. Please sign in again.">>

SignInFailedMsg == <<"Could not open the sign-in dialog. Please try again.">>

UnknownErrorMsg == <<"An unknown error occurred.">>

GenerationFailedPrefix == <<"Generation failed: ">>

NotFoundPhrase == <<"Requested", "entity", "was", "not", "found">>

\* What generateProfessionalHeadshot can reject with: an Error with a
\* message, or a value that is no Error (its text is then not looked at).
ErrorMessages ==
    { <<"404">> \o NotFoundPhrase \o <<".">>,
      <<"Requested", "entity", "was", "found">>,
      <<>> }

Thrown ==
    {[isError |-> TRUE, message |-> m] : m \in ErrorMessages}
        \cup {[isError |-> FALSE, message |-> NotFoundPhrase]}

\* What generateProfessionalHeadshot can resolve with: a string
Results == {<<>>, <<"data", ":", "image/png", ";", "base64", ",", "GGGG">>}

\* what ran last: its name, and its input as a truth value and a string
Op(name, flag, text) == [op |-> name, flag |-> flag, text |-> text]

RemoveAt(s, i) == SubSeq(s, 1, i - 1) \o SubSeq(s, i + 1, Len(s))

-----------------------------------------------------------------------------
(* src/App.tsx: what the render shows and what the handlers test *)

supportedMimeTypes_withGif ==
    {<<"image/png">>, <<"image/jpeg">>, <<"image/webp">>, <<"image/heic">>,
     <<"image/heif">>, <<"image/gif">>}

supportedMimeTypes ==
    {<<"image/png">>, <<"image/jpeg">>, <<"image/webp">>, <<"image/heic">>,
     <<"image/heif">>}

\* if (isCheckingKey) return spinner; if (!isKeyReady) return sign-in screen
mainUiShown_ignoresGate == ~isCheckingKey

mainUiShown == ~isCheckingKey /\ isKeyReady

signInShown == ~isCheckingKey /\ ~isKeyReady

\* disabled={isLoading || !image}
generateDisabled_imageOnly == ~Truthy(image)

generateDisabled == isLoading \/ ~Truthy(image)

\* if (!fileInfo || !prompt)
invalidRequest_fileInfoOnly(fi, p) == fi = None

invalidRequest(fi, p) == fi = None \/ p = <<>>

\* err instanceof Error ? err.message : 'An unknown error occurred.'
errorMessageOf(err) == IF err.isError THEN err.message ELSE UnknownErrorMsg

\* errorMessage.includes('Requested entity was not found')
isAuthError_exactMatch(errorMessage) == errorMessage = NotFoundPhrase

isAuthError(errorMessage) == Includes(errorMessage, NotFoundPhrase)

\* `Generation failed: ${errorMessage}`
generationFailedMsg_noText(errorMessage) == GenerationFailedPrefix

generationFailedMsg(errorMessage) == GenerationFailedPrefix \o errorMessage

\* setIsKeyReady(!!hasKey)
keyReadyFrom_always(hasKey) == TRUE

keyReadyFrom(hasKey) == hasKey

\* if (window.aistudio) { setIsKeyReady(false); }
gateAfterAuthError_always == FALSE

gateAfterAuthError == IF aistudio THEN FALSE ELSE isKeyReady

\* const currentImage = generatedImage || image
currentImage_uploadFirst == IF Truthy(image) THEN image ELSE generatedImage

currentImage == IF Truthy(generatedImage) THEN generatedImage ELSE image

-----------------------------------------------------------------------------
(* src/App.tsx: the state after the first render, before the mount effect *)

InitApp ==
    /\ aistudio \in BOOLEAN
    /\ image = None
    /\ generatedImage = None
    /\ generatedFrom = None
    /\ activeStyle = styles[1].id
    /\ prompt = styles[1].prompt
    /\ isLoading = FALSE
    /\ error = None
    /\ fileInfo = None
    /\ isCheckingKey = TRUE
    /\ isKeyReady = FALSE
    /\ checkPc = "mounted"
    /\ checkRuns = 0
    /\ signIns = 0
    /\ reads = <<>>
    /\ requests = <<>>
    /\ lastOp = Op("render", FALSE, <<>>)

Init ==
    /\ InitApp
    /\ parseInput = <<>>
    /\ parseOutput = None

-----------------------------------------------------------------------------
(* The access gate: useEffect(checkApiKey, []) and handleSignIn *)

\* The mount effect runs checkApiKey up to its first await, or, with no
\* window.aistudio, to its end.
checkApiKey ==
    /\ checkPc = "mounted"
    /\ checkRuns' = checkRuns + 1
    /\ IF aistudio
       THEN /\ checkPc' = "awaiting"
            /\ UNCHANGED <<isKeyReady, isCheckingKey>>
       ELSE /\ isKeyReady' = TRUE
            /\ isCheckingKey' = FALSE
            /\ checkPc' = "done"
    /\ lastOp' = Op("checkApiKey", FALSE, <<>>)
    /\ UNCHANGED <<aistudio, image, generatedImage, generatedFrom,
                   activeStyle, prompt,
                   isLoading, error, fileInfo, signIns, reads, requests,
                   parseVars>>

\* await window.aistudio.hasSelectedApiKey() resolves with hasKey
hasSelectedApiKeyResolved(hasKey) ==
    /\ checkPc = "awaiting"
    /\ isKeyReady' = keyReadyFrom(hasKey)
    /\ isCheckingKey' = FALSE
    /\ checkPc' = "done"
    /\ lastOp' = Op("hasSelectedApiKeyResolved", hasKey, <<>>)
    /\ UNCHANGED <<aistudio, image, generatedImage, generatedFrom,
                   activeStyle, prompt,
                   isLoading, error, fileInfo, checkRuns, signIns, reads,
                   requests, parseVars>>

hasSelectedApiKeyRejected_failsClosed ==
    /\ checkPc = "awaiting"
    /\ isKeyReady' = FALSE
    /\ isCheckingKey' = FALSE
    /\ checkPc' = "done"
    /\ lastOp' = Op("hasSelectedApiKeyRejected", FALSE, <<>>)
    /\ UNCHANGED <<aistudio, image, generatedImage, generatedFrom,
                   activeStyle, prompt, isLoading, error, fileInfo,
                   checkRuns, signIns, reads, requests, parseVars>>

\* await window.aistudio.hasSelectedApiKey() rejects: catch, then finally
hasSelectedApiKeyRejected ==
    /\ checkPc = "awaiting"
    /\ isKeyReady' = TRUE
    /\ isCheckingKey' = FALSE
    /\ checkPc' = "done"
    /\ lastOp' = Op("hasSelectedApiKeyRejected", FALSE, <<>>)
    /\ UNCHANGED <<aistudio, image, generatedImage, generatedFrom,
                   activeStyle, prompt,
                   isLoading, error, fileInfo, checkRuns, signIns, reads,
                   requests, parseVars>>

\* The Sign In button, up to await window.aistudio.openSelectKey()
handleSignIn ==
    /\ signInShown
    /\ signIns < MaxSignIns
    /\ signIns' = IF aistudio THEN signIns + 1 ELSE signIns
    /\ lastOp' = Op("handleSignIn", FALSE, <<>>)
    /\ UNCHANGED <<aistudio, image, generatedImage, generatedFrom,
                   activeStyle, prompt,
                   isLoading, error, fileInfo, isCheckingKey, isKeyReady,
                   checkPc, checkRuns, reads, requests, parseVars>>

openSelectKeyResolved_keepsGate ==
    /\ signIns > 0
    /\ signIns' = signIns - 1
    /\ lastOp' = Op("openSelectKeyResolved", FALSE, <<>>)
    /\ UNCHANGED <<aistudio, image, generatedImage, generatedFrom,
                   activeStyle, prompt, isLoading, error, fileInfo,
                   isCheckingKey, isKeyReady, checkPc, checkRuns, reads,
                   requests, parseVars>>

openSelectKeyResolved ==
    /\ signIns > 0
    /\ signIns' = signIns - 1
    /\ isKeyReady' = TRUE
    /\ lastOp' = Op("openSelectKeyResolved", FALSE, <<>>)
    /\ UNCHANGED <<aistudio, image, generatedImage, generatedFrom,
                   activeStyle, prompt,
                   isLoading, error, fileInfo, isCheckingKey, checkPc,
                   checkRuns, reads, requests, parseVars>>

openSelectKeyRejected_opensGate ==
    /\ signIns > 0
    /\ signIns' = signIns - 1
    /\ error' = Some(SignInFailedMsg)
    /\ isKeyReady' = TRUE
    /\ lastOp' = Op("openSelectKeyRejected", FALSE, <<>>)
    /\ UNCHANGED <<aistudio, image, generatedImage, generatedFrom,
                   activeStyle, prompt, isLoading, fileInfo, isCheckingKey,
                   checkPc, checkRuns, reads, requests, parseVars>>

openSelectKeyRejected ==
    /\ signIns > 0
    /\ signIns' = signIns - 1
    /\ error' = Some(SignInFailedMsg)
    /\ lastOp' = Op("openSelectKeyRejected", FALSE, <<>>)
    /\ UNCHANGED <<aistudio, image, generatedImage, generatedFrom,
                   activeStyle, prompt,
                   isLoading, fileInfo, isCheckingKey, isKeyReady, checkPc,
                   checkRuns, reads, requests, parseVars>>

-----------------------------------------------------------------------------
(* Upload: handleImageChange *)

\* onChange of the file input, up to await fileToDataUrl(file)
handleImageChange(file) ==
    /\ mainUiShown
    /\ IF file.type \notin supportedMimeTypes
       THEN /\ error' = Some(UnsupportedTypeMsg)
            /\ UNCHANGED <<generatedImage, generatedFrom, reads>>
       ELSE /\ Len(reads) < MaxReads
            /\ error' = None
            /\ generatedImage' = None
            /\ generatedFrom' = None
            /\ reads' = Append(reads, file)
    /\ lastOp' = Op("handleImageChange", FALSE, file.type)
    /\ UNCHANGED <<aistudio, image, activeStyle, prompt, isLoading, fileInfo,
                   isCheckingKey, isKeyReady, checkPc, checkRuns, signIns,
                   requests, parseVars>>

\* fileToDataUrl resolves: setImage, parseDataUrl, setFileInfo; a throw of
\* parseDataUrl lands in the catch with setImage already done
fileToDataUrlResolved(i, dataUrl) ==
    /\ i \in 1..Len(reads)
    /\ Return(dataUrl) \in fileToDataUrl(reads[i])
    /\ reads' = RemoveAt(reads, i)
    /\ image' = Some(dataUrl)
    /\ LET parsed == parseDataUrl(dataUrl)
       IN  IF parsed.threw
           THEN /\ error' = Some(ReadFailedMsg)
                /\ UNCHANGED fileInfo
           ELSE /\ fileInfo' = Some(parsed.value[1])
                /\ UNCHANGED error
    /\ lastOp' = Op("fileToDataUrlResolved", FALSE, dataUrl)
    /\ UNCHANGED <<aistudio, generatedImage, generatedFrom, activeStyle, prompt, isLoading,
                   isCheckingKey, isKeyReady, checkPc, checkRuns, signIns,
                   requests, parseVars>>

fileToDataUrlRejected_clearsUpload(i) ==
    /\ i \in 1..Len(reads)
    /\ \E r \in fileToDataUrl(reads[i]) : r.threw
    /\ reads' = RemoveAt(reads, i)
    /\ error' = Some(ReadFailedMsg)
    /\ image' = None
    /\ fileInfo' = None
    /\ lastOp' = Op("fileToDataUrlRejected", FALSE, <<>>)
    /\ UNCHANGED <<aistudio, generatedImage, generatedFrom, activeStyle,
                   prompt, isLoading, isCheckingKey, isKeyReady, checkPc,
                   checkRuns, signIns, requests, parseVars>>

fileToDataUrlRejected(i) ==
    /\ i \in 1..Len(reads)
    /\ \E r \in fileToDataUrl(reads[i]) : r.threw
    /\ reads' = RemoveAt(reads, i)
    /\ error' = Some(ReadFailedMsg)
    /\ lastOp' = Op("fileToDataUrlRejected", FALSE, <<>>)
    /\ UNCHANGED <<aistudio, image, generatedImage, generatedFrom,
                   activeStyle, prompt,
                   isLoading, fileInfo, isCheckingKey, isKeyReady, checkPc,
                   checkRuns, signIns, requests, parseVars>>

-----------------------------------------------------------------------------
(* Generation: handleGenerate *)

\* The Generate button, up to await generateProfessionalHeadshot(...)
handleGenerate ==
    /\ mainUiShown
    /\ ~generateDisabled
    /\ IF invalidRequest(fileInfo, prompt)
       THEN /\ error' = Some(ValidationMsg)
            /\ UNCHANGED <<isLoading, generatedImage, generatedFrom, requests>>
       ELSE /\ Len(requests) < MaxRequests
            /\ isLoading' = TRUE
            /\ error' = None
            /\ generatedImage' = None
            /\ generatedFrom' = None
            /\ requests' = Append(requests,
                                  [fileInfo |-> fileInfo, prompt |-> prompt])
    /\ lastOp' = Op("handleGenerate", FALSE, <<>>)
    /\ UNCHANGED <<aistudio, image, activeStyle, prompt, fileInfo,
                   isCheckingKey, isKeyReady, checkPc, checkRuns, signIns,
                   reads, parseVars>>

\* the call resolves: setGeneratedImage(result), then finally
generateResolved(i, result) ==
    /\ i \in 1..Len(requests)
    /\ requests' = RemoveAt(requests, i)
    /\ generatedImage' = Some(result)
    /\ generatedFrom' = requests[i].fileInfo
    /\ isLoading' = FALSE
    /\ lastOp' = Op("generateResolved", FALSE, result)
    /\ UNCHANGED <<aistudio, image, activeStyle, prompt, error, fileInfo,
                   isCheckingKey, isKeyReady, checkPc, checkRuns, signIns,
                   reads, parseVars>>

generateRejected_noFinally(i, err) ==
    /\ i \in 1..Len(requests)
    /\ requests' = RemoveAt(requests, i)
    /\ LET errorMessage == errorMessageOf(err)
       IN  IF isAuthError(errorMessage)
           THEN /\ error' = Some(SessionExpiredMsg)
                /\ isKeyReady' = (IF aistudio THEN FALSE ELSE isKeyReady)
           ELSE /\ error' = Some(GenerationFailedPrefix \o errorMessage)
                /\ UNCHANGED isKeyReady
    /\ lastOp' = Op("generateRejected", err.isError, err.message)
    /\ UNCHANGED <<aistudio, image, generatedImage, generatedFrom,
                   activeStyle, prompt, isLoading, fileInfo, isCheckingKey,
                   checkPc, checkRuns, signIns, reads, parseVars>>

\* the call rejects: catch, then finally
generateRejected(i, err) ==
    /\ i \in 1..Len(requests)
    /\ requests' = RemoveAt(requests, i)
    /\ LET errorMessage == errorMessageOf(err)
       IN  IF isAuthError(errorMessage)
           THEN /\ error' = Some(SessionExpiredMsg)
                /\ isKeyReady' = gateAfterAuthError
           ELSE /\ error' = Some(generationFailedMsg(errorMessage))
                /\ UNCHANGED isKeyReady
    /\ isLoading' = FALSE
    /\ lastOp' = Op("generateRejected", err.isError, err.message)
    /\ UNCHANGED <<aistudio, image, generatedImage, generatedFrom,
                   activeStyle, prompt,
                   fileInfo, isCheckingKey, checkPc, checkRuns, signIns,
                   reads, parseVars>>

-----------------------------------------------------------------------------
(* Style and prompt *)

handleSelectStyle(style) ==
    /\ mainUiShown
    /\ activeStyle' = style.id
    /\ prompt' = style.prompt
    /\ lastOp' = Op("handleSelectStyle", FALSE, <<style.id>>)
    /\ UNCHANGED <<aistudio, image, generatedImage, generatedFrom,
                   isLoading, error,
                   fileInfo, isCheckingKey, isKeyReady, checkPc, checkRuns,
                   signIns, reads, requests, parseVars>>

\* onChange of the prompt editor's textarea
setPrompt(value) ==
    /\ mainUiShown
    /\ prompt' = value
    /\ lastOp' = Op("setPrompt", FALSE, value)
    /\ UNCHANGED <<aistudio, image, generatedImage, generatedFrom,
                   activeStyle, isLoading,
                   error, fileInfo, isCheckingKey, isKeyReady, checkPc,
                   checkRuns, signIns, reads, requests, parseVars>>

-----------------------------------------------------------------------------

Next ==
    \/ checkApiKey
    \/ \E hasKey \in BOOLEAN : hasSelectedApiKeyResolved(hasKey)
    \/ hasSelectedApiKeyRejected
    \/ handleSignIn
    \/ openSelectKeyResolved
    \/ openSelectKeyRejected
    \/ \E file \in Files : handleImageChange(file)
    \/ \E i \in 1..Len(reads) : \E r \in fileToDataUrl(reads[i]) :
           ~r.threw /\ fileToDataUrlResolved(i, r.value[1])
    \/ \E i \in 1..Len(reads) : fileToDataUrlRejected(i)
    \/ handleGenerate
    \/ \E i \in 1..Len(requests) : \E result \in Results :
           generateResolved(i, result)
    \/ \E i \in 1..Len(requests) : \E err \in Thrown : generateRejected(i, err)
    \/ \E style \in PickableStyles : handleSelectStyle(style)
    \/ \E value \in TypedPrompts : setPrompt(value)

Spec == Init /\ [][Next]_vars

\* A started call runs to completion or rejection: the promise of
\* generateProfessionalHeadshot settles, and its continuation then runs.
generateSettles ==
    \/ \E i \in 1..Len(requests) : \E result \in Results :
           generateResolved(i, result)
    \/ \E i \in 1..Len(requests) : \E err \in Thrown : generateRejected(i, err)

SpecSettling == Init /\ [][Next]_vars /\ WF_vars(generateSettles)

-----------------------------------------------------------------------------
(* parseDataUrl on its own: every input string, then the call *)

\* the characters of the input strings: the three separators and two others
Chars == {",", ":", ";", "a", "b"}

DataPrefix == <<"d", "a", "t", "a", ":">>

Base64Marker == <<";", "b", "a", "s", "e", "6", "4", ",">>

\* 'data:' + mime + ';base64,' + payload
BuildDataUrl(mime, payload) == DataPrefix \o mime \o Base64Marker \o payload

ParseInputs ==
    SeqUpTo(Chars, MaxLen)
        \cup {BuildDataUrl(m, p) : m, p \in SeqUpTo(Chars, MaxPart)}

InitParse ==
    /\ InitApp
    /\ aistudio = TRUE
    /\ parseInput \in ParseInputs
    /\ parseOutput = None

callParseDataUrl ==
    /\ parseOutput = None
    /\ parseOutput' = Some(parseDataUrl(parseInput))
    /\ UNCHANGED <<appVars, parseInput>>

NextParse == callParseDataUrl

SpecParse == InitParse /\ [][NextParse]_vars

-----------------------------------------------------------------------------
(* What the claims about parseDataUrl speak of, read off the input string *)

CommaCount(s) == Cardinality({i \in 1..Len(s) : s[i] = ","})

\* position of the first comma (for strings that hold one)
CommaAt(s) == CHOOSE k \in 1..Len(s) : s[k] = "," /\ \A j \in 1..(k - 1) : s[j] # ","

\* the metadata segment: all that stands before the comma
MetaOf(s) == SubSeq(s, 1, CommaAt(s) - 1)

\* s reads data:<mime>;base64,<payload> and holds exactly one comma
HasDataUrlForm(s) ==
    /\ CommaCount(s) = 1
    /\ CommaAt(s) >= Len(DataPrefix) + Len(Base64Marker)
    /\ SubSeq(s, 1, Len(DataPrefix)) = DataPrefix
    /\ SubSeq(s, CommaAt(s) - Len(Base64Marker) + 1, CommaAt(s)) = Base64Marker

MimeOf(s) == SubSeq(s, Len(DataPrefix) + 1, CommaAt(s) - Len(Base64Marker))

PayloadOf(s) == SubSeq(s, CommaAt(s) + 1, Len(s))

Holds(s, c) == \E i \in 1..Len(s) : s[i] = c

\* parseDataUrl returned exactly {mimeType: mime, base64Data: payload}
Recovered(out, mime, payload) ==
    /\ ~out.threw
    /\ out.value = Some([mimeType |-> mime, base64Data |-> payload])

\* C6 as claimed: for every string data:<mime>;base64,<payload> with exactly
\* one comma, parseDataUrl returns <mime> and <payload> exactly, and
\* 'data:' + mimeType + ';base64,' + base64Data is the string again.
C6_RoundTripAnyMime ==
    (parseOutput # None /\ HasDataUrlForm(parseInput)) =>
        /\ Recovered(parseOutput[1], MimeOf(parseInput), PayloadOf(parseInput))
        /\ BuildDataUrl(parseOutput[1].value[1].mimeType,
                        parseOutput[1].value[1].base64Data) = parseInput

\* C6 as amended: the same, for a <mime> that holds neither a colon nor a
\* semicolon (a bare type/subtype, as the file reader writes it).
C6_RoundTripBareMime ==
    (/\ parseOutput # None
     /\ HasDataUrlForm(parseInput)
     /\ ~Holds(MimeOf(parseInput), ":")
     /\ ~Holds(MimeOf(parseInput), ";")) =>
        /\ Recovered(parseOutput[1], MimeOf(parseInput), PayloadOf(parseInput))
        /\ BuildDataUrl(parseOutput[1].value[1].mimeType,
                        parseOutput[1].value[1].base64Data) = parseInput

\* C6 witness: a data URL with a bare, non-empty <mime> and a non-empty
\* <payload> has been parsed and both came back.
C6_Witness ==
    /\ parseOutput # None
    /\ HasDataUrlForm(parseInput)
    /\ MimeOf(parseInput) = <<"a", "b">>
    /\ PayloadOf(parseInput) = <<"b", "a">>
    /\ Recovered(parseOutput[1], <<"a", "b">>, <<"b", "a">>)

\* C7: for an input with no comma, with two or more commas, or with an
\* empty metadata segment, parseDataUrl throws a format error and returns
\* nothing, not even part of a {mimeType, base64Data}.
C7_BadCommaCountOrEmptyMetaThrows ==
    (/\ parseOutput # None
     /\ \/ CommaCount(parseInput) = 0
        \/ CommaCount(parseInput) >= 2
        \/ (CommaCount(parseInput) = 1 /\ MetaOf(parseInput) = <<>>)) =>
        /\ parseOutput[1].threw
        /\ parseOutput[1].value = None
        /\ parseOutput[1].message \in
               {<<"Invalid Data URL format.">>,
                <<"Invalid Data URL: Missing metadata.">>}

\* C7 witness: a string with two commas, otherwise like a data URL, has been
\* given to parseDataUrl, which threw.
C7_Witness ==
    /\ parseInput = <<"a", ":", "b", ",", ",">>
    /\ parseOutput # None
    /\ parseOutput[1].threw

\* a colon-delimited scheme followed by a semicolon-delimited MIME type:
\* <scheme>:<mime>;<rest>, one colon, scheme and mime not empty
WellFormedMeta(meta) ==
    /\ Cardinality({i \in 1..Len(meta) : meta[i] = ":"}) = 1
    /\ LET colon == CHOOSE k \in 1..Len(meta) : meta[k] = ":"
           after == SubSeq(meta, colon + 1, Len(meta))
       IN  /\ colon > 1
           /\ Holds(after, ";")
           /\ after[1] # ";"

\* the code's own test of the metadata segment: it holds a colon, and its
\* first colon is followed by something other than a second colon
HasMetaPart(meta) ==
    /\ Holds(meta, ":")
    /\ LET colon == CHOOSE k \in 1..Len(meta) :
                        meta[k] = ":" /\ \A j \in 1..(k - 1) : meta[j] # ":"
       IN  colon < Len(meta) /\ meta[colon + 1] # ":"

\* C8 as claimed: for every single-comma input whose metadata segment is not
\* a scheme, a colon, a MIME type and a semicolon (no semicolon, an empty
\* MIME type, more than one colon), parseDataUrl throws a format error.
C8_MalformedMetaThrows ==
    (/\ parseOutput # None
     /\ CommaCount(parseInput) = 1
     /\ ~WellFormedMeta(MetaOf(parseInput))) =>
        parseOutput[1].threw

\* C8 as amended: for a single-comma input parseDataUrl throws a format error
\* exactly when the metadata segment holds no colon or holds nothing between
\* its first colon and the next colon or its end; any other metadata segment,
\* malformed or not, gives a result whose base64Data is the text after the
\* comma.
C8_ThrowsIffNoMetaPart ==
    (parseOutput # None /\ CommaCount(parseInput) = 1) =>
        /\ parseOutput[1].threw <=> ~HasMetaPart(MetaOf(parseInput))
        /\ parseOutput[1].threw =>
               /\ parseOutput[1].value = None
               /\ parseOutput[1].message = <<"Invalid Data URL: Missing metadata.">>
        /\ ~parseOutput[1].threw =>
               parseOutput[1].value[1].base64Data = PayloadOf(parseInput)

\* C8 witness: a single-comma input whose metadata segment is not empty and
\* holds no colon has been given to parseDataUrl, which threw.
C8_Witness ==
    /\ parseInput = <<"a", ";", "b", ",", "a">>
    /\ parseOutput # None
    /\ parseOutput[1].threw

-----------------------------------------------------------------------------
(* The claims about the App component, under Spec.  lastOp' names the      *)
(* handler or continuation a step ran, and its input.                      *)

\* C1: at most one generation request is outstanding in every reachable
\* state, whatever the user does and in whatever order pending calls settle;
\* while a request is outstanding the loading flag is true, which keeps the
\* Generate button disabled.
C1_SingleRequestInFlight ==
    /\ Len(requests) <= 1
    /\ requests # <<>> => isLoading

\* C1 witness: a request is outstanding, the main screen is shown with an
\* image on it, and the user has gone on acting (here: edited the prompt).
C1_Witness ==
    /\ Len(requests) = 1
    /\ isLoading
    /\ ~isCheckingKey /\ isKeyReady
    /\ image # None
    /\ lastOp.op = "setPrompt"

\* C2: handleGenerate invoked with no fileInfo or with an empty prompt sets
\* the validation message and returns: no request is added and the loading
\* flag is not set; and a step adds a request only if fileInfo and a
\* non-empty prompt were there when it was invoked, and sends those.
C2_InvalidGenerateMakesNoCall ==
    [][/\ (lastOp'.op = "handleGenerate" /\ (fileInfo = None \/ prompt = <<>>)) =>
              /\ error' = Some(ValidationMsg)
              /\ requests' = requests
              /\ ~isLoading'
              /\ isLoading' = isLoading
       /\ Len(requests') > Len(requests) =>
              /\ lastOp'.op = "handleGenerate"
              /\ fileInfo # None
              /\ prompt # <<>>
              /\ requests' = Append(requests, [fileInfo |-> fileInfo, prompt |-> prompt])
      ]_vars

\* C2 witness: handleGenerate has just run with an image uploaded and an
\* empty prompt: the validation message is shown, nothing is in flight.
C2_Witness ==
    /\ lastOp.op = "handleGenerate"
    /\ prompt = <<>>
    /\ fileInfo # None
    /\ error = Some(ValidationMsg)
    /\ requests = <<>>
    /\ ~isLoading

\* a step in which a generation request was rejected with an Error whose
\* message holds the phrase / does not hold it
AuthFailureStep ==
    /\ lastOp'.op = "generateRejected"
    /\ lastOp'.flag
    /\ Includes(lastOp'.text, NotFoundPhrase)

OtherFailureStep ==
    /\ lastOp'.op = "generateRejected"
    /\ lastOp'.flag
    /\ ~Includes(lastOp'.text, NotFoundPhrase)

\* C3 as claimed: whenever a generation request fails with an error whose
\* message holds 'Requested entity was not found', the gate becomes NotReady,
\* with window.aistudio present or absent.
C3_AuthFailureResetsGateEverywhere ==
    [][AuthFailureStep => ~isKeyReady']_vars

\* C3 as amended: such a failure sets the session-expired message; it resets
\* the gate to NotReady when window.aistudio is present and leaves the gate
\* as it was when window.aistudio is absent.
C3_AuthFailureResetsGateInAiStudio ==
    [][AuthFailureStep =>
           /\ error' = Some(SessionExpiredMsg)
           /\ aistudio => ~isKeyReady'
           /\ ~aistudio => isKeyReady' = isKeyReady
      ]_vars

\* C3 witness: with window.aistudio present a request has just failed with
\* such an error and the sign-in screen is up.
C3_Witness ==
    /\ aistudio
    /\ lastOp.op = "generateRejected"
    /\ lastOp.flag
    /\ Includes(lastOp.text, NotFoundPhrase)
    /\ ~isKeyReady
    /\ error = Some(SessionExpiredMsg)

\* C4: whenever a generation request fails with an error whose message does
\* not hold the phrase, the gate is unchanged and Ready, the error slot is
\* 'Generation failed: ' followed by the error's message, and no request is
\* issued again; a rejection with a value that is no Error is treated alike,
\* with 'An unknown error occurred.' as the text.
C4_OtherFailureKeepsGate ==
    [][/\ OtherFailureStep =>
              /\ isKeyReady' = isKeyReady
              /\ isKeyReady'
              /\ error' = Some(<<"Generation failed: ">> \o lastOp'.text)
              /\ requests' = <<>>
       /\ (lastOp'.op = "generateRejected" /\ ~lastOp'.flag) =>
              /\ isKeyReady' = isKeyReady
              /\ error' = Some(<<"Generation failed: ", "An unknown error occurred.">>)
              /\ requests' = <<>>
      ]_vars

\* C4 witness: a request has just failed with an Error whose message comes
\* close to the phrase without holding it; the main screen shows the message.
C4_Witness ==
    /\ lastOp.op = "generateRejected"
    /\ lastOp.flag
    /\ lastOp.text = <<"Requested", "entity", "was", "found">>
    /\ error = Some(<<"Generation failed: ", "Requested", "entity", "was", "found">>)
    /\ isKeyReady
    /\ requests = <<>>

\* C5: when a generation request resolves, its result becomes generatedImage
\* whatever was there before, the displayed image is that result if it is
\* not empty and the upload otherwise, image and fileInfo are unchanged, and
\* the main screen is up with the Generate button enabled again.
C5_SuccessReplacesDisplayedKeepsUpload ==
    [][lastOp'.op = "generateResolved" =>
           /\ generatedImage' = Some(lastOp'.text)
           /\ currentImage' = (IF lastOp'.text # <<>> THEN Some(lastOp'.text) ELSE image)
           /\ image' = image
           /\ fileInfo' = fileInfo
           /\ ~isCheckingKey' /\ isKeyReady'
           /\ ~isLoading'
      ]_vars

\* C5 witness: a request has just resolved with an image; it is displayed,
\* and the upload and its payload are still there.
C5_Witness ==
    /\ lastOp.op = "generateResolved"
    /\ lastOp.text # <<>>
    /\ generatedImage = Some(lastOp.text)
    /\ currentImage = generatedImage
    /\ image # None /\ image # generatedImage
    /\ fileInfo # None

\* C9: when the selected file's type is none of image/png, image/jpeg,
\* image/webp, image/heic, image/heif, handleImageChange sets the
\* unsupported-type message and starts no read; no read is ever pending for
\* a file of another type.
C9_UnsupportedTypeNeverEncoded ==
    [][/\ (/\ lastOp'.op = "handleImageChange"
           /\ lastOp'.text \notin {<<"image/png">>, <<"image/jpeg">>, <<"image/webp">>,
                                  <<"image/heic">>, <<"image/heif">>}) =>
              /\ error' = Some(UnsupportedTypeMsg)
              /\ reads' = reads
       /\ \A i \in 1..Len(reads') :
              reads'[i].type \in {<<"image/png">>, <<"image/jpeg">>, <<"image/webp">>,
                                  <<"image/heic">>, <<"image/heif">>}
      ]_vars

\* C9 witness: an image/gif file has just been selected over an earlier
\* upload; the message is shown and no read is pending.
C9_Witness ==
    /\ lastOp.op = "handleImageChange"
    /\ lastOp.text = <<"image/gif">>
    /\ error = Some(UnsupportedTypeMsg)
    /\ reads = <<>>
    /\ image # None

\* C10: checkApiKey runs once.  While it runs nothing has been uploaded or
\* generated.  When it ends the gate is Ready with window.aistudio absent,
\* and with it present Ready if hasSelectedApiKey resolved true and NotReady
\* if it resolved false.  Once ended it never runs again.
C10_StartupCheckOnce ==
    [][/\ checkRuns' <= 1
       /\ isCheckingKey' =>
              /\ image' = None /\ fileInfo' = None /\ generatedImage' = None
              /\ reads' = <<>> /\ requests' = <<>> /\ signIns' = 0
              /\ lastOp'.op \in {"render", "checkApiKey"}
       /\ (isCheckingKey /\ ~isCheckingKey') =>
              /\ checkRuns' = 1
              /\ ~aistudio => isKeyReady'
              /\ (aistudio /\ lastOp'.op = "hasSelectedApiKeyResolved") =>
                     isKeyReady' = lastOp'.flag
       /\ ~isCheckingKey =>
              /\ ~isCheckingKey'
              /\ checkRuns' = checkRuns
              /\ lastOp'.op \notin {"checkApiKey", "hasSelectedApiKeyResolved",
                                    "hasSelectedApiKeyRejected"}
      ]_vars

\* C10 witness: hasSelectedApiKey has just resolved false; the check is over
\* and the gate is NotReady.
C10_Witness ==
    /\ aistudio
    /\ lastOp.op = "hasSelectedApiKeyResolved"
    /\ lastOp.flag = FALSE
    /\ ~isCheckingKey
    /\ ~isKeyReady
    /\ checkRuns = 1

-----------------------------------------------------------------------------
(* The claims about the gate after startup, overlapping calls and failed   *)
(* uploads                                                                 *)

\* C11: when openSelectKey rejects, the sign-in message is put in the error
\* slot and the gate is left as it was: a gate that was NotReady is still
\* NotReady, and the sign-in screen shows the message.
C11_SignInRejectedKeepsGate ==
    [][lastOp'.op = "openSelectKeyRejected" =>
           /\ error' = Some(SignInFailedMsg)
           /\ isKeyReady' = isKeyReady
           /\ ~isKeyReady => (~isKeyReady' /\ ~isCheckingKey')
      ]_vars

\* C11 witness: the dialog opened from the sign-in screen has just failed;
\* the gate is NotReady and the message is set.
C11_Witness ==
    /\ aistudio
    /\ lastOp.op = "openSelectKeyRejected"
    /\ ~isCheckingKey
    /\ ~isKeyReady
    /\ error = Some(SignInFailedMsg)
    /\ signIns = 0

\* C12: when openSelectKey resolves the gate is Ready at once: the startup
\* check is not run again and hasSelectedApiKey is not called again.
C12_SignInResolvedOpensGate ==
    [][lastOp'.op = "openSelectKeyResolved" =>
           /\ isKeyReady'
           /\ ~isCheckingKey'
           /\ checkPc = "done" /\ checkPc' = "done"
           /\ checkRuns' = checkRuns
           /\ error' = error
      ]_vars

\* C12 witness: from the sign-in screen, reached because hasSelectedApiKey
\* said false, the dialog has just closed and the main screen is up.
C12_Witness ==
    /\ aistudio
    /\ lastOp.op = "openSelectKeyResolved"
    /\ isKeyReady
    /\ ~isCheckingKey
    /\ checkRuns = 1
    /\ signIns = 0

\* C13: provided the remote call settles, every started request leaves
\* flight with the loading flag cleared, whether it succeeded, failed or
\* failed for authentication; the flag is true exactly while a request is
\* outstanding, so it is never stuck; and once it is cleared the Generate
\* button is enabled whenever the main screen shows an image.
C13_LoadingAlwaysEnds ==
    /\ [](isLoading <=> requests # <<>>)
    /\ [](( /\ requests = <<>>
            /\ ~isCheckingKey /\ isKeyReady
            /\ image # None /\ image[1] # <<>>) => ~generateDisabled)
    /\ (requests # <<>>) ~> (requests = <<>> /\ ~isLoading)

\* C13 witness: a request has just failed for authentication outside AI
\* Studio; nothing is in flight, the flag is cleared and the button enabled.
C13_Witness ==
    /\ ~aistudio
    /\ lastOp.op = "generateRejected"
    /\ lastOp.flag
    /\ Includes(lastOp.text, NotFoundPhrase)
    /\ requests = <<>>
    /\ ~isLoading
    /\ ~generateDisabled

\* C14: a request is in flight only while the gate is Ready; a request is
\* started, and a file is taken, only from the main screen (check over, gate
\* Ready); and the gate leaves Ready only by the authentication failure of
\* the request in flight, which ends that flight.
C14_RequestsOnlyWhileReady ==
    [][/\ requests' # <<>> => (isKeyReady' /\ ~isCheckingKey')
       /\ lastOp'.op \in {"handleImageChange", "handleGenerate"} =>
              (isKeyReady /\ ~isCheckingKey)
       /\ Len(requests') > Len(requests) => (isKeyReady /\ ~isCheckingKey)
       /\ (isKeyReady /\ ~isKeyReady') =>
              /\ lastOp'.op = "generateRejected"
              /\ lastOp'.flag
              /\ Includes(lastOp'.text, NotFoundPhrase)
              /\ requests # <<>>
              /\ requests' = <<>>
      ]_vars

\* C14 witness: in AI Studio, with the check over, a request has just been
\* started and is in flight with the gate Ready.
C14_Witness ==
    /\ aistudio
    /\ lastOp.op = "handleGenerate"
    /\ Len(requests) = 1
    /\ isKeyReady
    /\ ~isCheckingKey

\* C17: when hasSelectedApiKey rejects, the startup check still ends and the
\* gate is Ready, not NotReady.
C17_CheckFailsOpen ==
    [][lastOp'.op = "hasSelectedApiKeyRejected" =>
           /\ isCheckingKey /\ ~isCheckingKey'
           /\ checkPc' = "done"
           /\ isKeyReady'
      ]_vars

\* C17 witness: hasSelectedApiKey has just rejected; the main screen is up.
C17_Witness ==
    /\ aistudio
    /\ lastOp.op = "hasSelectedApiKeyRejected"
    /\ ~isCheckingKey
    /\ isKeyReady
    /\ checkPc = "done"

\* C18: with window.aistudio absent the gate is Ready in every state after
\* the startup check, so the sign-in screen is never shown and no sign-in
\* is ever started.
C18_StandaloneAlwaysReady ==
    (~aistudio /\ ~isCheckingKey) => (isKeyReady /\ signIns = 0)

\* C18 witness: standalone, a request made for an uploaded image has just
\* failed for authentication; the message is shown and the gate is Ready.
C18_Witness ==
    /\ ~aistudio
    /\ lastOp.op = "generateRejected"
    /\ lastOp.flag
    /\ Includes(lastOp.text, NotFoundPhrase)
    /\ error = Some(SessionExpiredMsg)
    /\ image # None
    /\ ~isCheckingKey
    /\ isKeyReady

\* C19: a file rejected for its type changes the error message alone; a
\* file whose read rejects leaves image and fileInfo as they were.
C19_FailedUploadKeepsPrevious ==
    [][/\ (/\ lastOp'.op = "handleImageChange"
           /\ lastOp'.text \notin {<<"image/png">>, <<"image/jpeg">>, <<"image/webp">>,
                                   <<"image/heic">>, <<"image/heif">>}) =>
              /\ image' = image
              /\ fileInfo' = fileInfo
              /\ generatedImage' = generatedImage
              /\ prompt' = prompt
              /\ activeStyle' = activeStyle
              /\ isLoading' = isLoading
              /\ isKeyReady' = isKeyReady
              /\ isCheckingKey' = isCheckingKey
              /\ reads' = reads
              /\ requests' = requests
       /\ lastOp'.op = "fileToDataUrlRejected" =>
              /\ image' = image
              /\ fileInfo' = fileInfo
              /\ error' = Some(ReadFailedMsg)
      ]_vars

\* C19 witness: with an image uploaded, the read of a second file has just
\* rejected; the first image and its payload are still there.
C19_Witness ==
    /\ lastOp.op = "fileToDataUrlRejected"
    /\ image # None
    /\ fileInfo # None
    /\ error = Some(ReadFailedMsg)

\* C15: whenever a generated result is displayed it was produced from the
\* image that is uploaded now: the payload sent for it is the payload held
\* for the current upload (fileInfo).  So the result of a request that was
\* in flight when a new upload came in is not shown over that upload.
C15_ResultIsOfCurrentUpload ==
    (generatedImage # None /\ generatedImage[1] # <<>>) =>
        /\ image # None
        /\ generatedFrom = fileInfo

\* C16: fileInfo is set exactly when image is, and is then what parseDataUrl
\* makes of image, whatever the order in which overlapping reads complete
\* and also when parseDataUrl throws on a data URL.
C16_FileInfoMatchesImage ==
    /\ (fileInfo # None) <=> (image # None)
    /\ image # None =>
           /\ ~parseDataUrl(image[1]).threw
           /\ fileInfo = parseDataUrl(image[1]).value

=============================================================================
